---- MODULE Spec2Model ----
(***************************************************************************)
(* A model of metmar: the gale-warning timeline (extractWarningNumbers,    *)
(* serveGaleWarnings, handleGaleWarnings), the text normalizer             *)
(* (htmlToText), the bulletin decoders (the formatReport variants) and the *)
(* forecast servers (fetchForecasts, renderForecast, serveForecast,        *)
(* serveAreas), one handler at a time and two in flight together.          *)
(*                                                                         *)
(* Strings the code transforms are sequences of one-character strings, so  *)
(* that replacing, trimming and splitting are computed on characters.      *)
(* A time is an instant, kept to the hour (year, day of the year and hour  *)
(* in UTC), with the offset of its location.                               *)
(***************************************************************************)
EXTENDS Integers, Sequences, FiniteSets, TLC

VARIABLES
    pc,         \* gale: "walk" (filepath.Walk runs), "extracted", "done"
    warnings,   \* gale: the slice the walk callback appends to, then the returned one
    walkErr,    \* gale: the error filepath.Walk returned (Nil while there is none)
    matched,    \* gale: how many regular files with a matching name the walk visited
    last,       \* gale: the file the callback saw last
    response,   \* gale: what handleGaleWarnings wrote to the client
    now,        \* gale: the time.Now() serveGaleWarnings read
    html,       \* text: the argument of htmlToText
    text,       \* text: its result
    tpc,        \* text: "call" before htmlToText ran, "ret" after
    reports,    \* decoder: the decoded upstream JSON
    variant,    \* decoder: which formatReport runs ("B", "A", "A0")
    forecast,   \* decoder: the result of formatReport
    rpc,        \* decoder: "call" before formatReport ran, "ret" after
    server,     \* server: which command runs ("B": serve.go, "C": the page server, "gale")
    prefix,     \* server: the value of the flag --prefix
    upstream,   \* server: what the upstream site answers, or the forecast directory
    req,        \* server: the request each handler was given
    spc,        \* server: where each handler is ("off", "fetch", "fetched", "done")
    loopi,      \* server: the loop variable of each handler's fetch or walk
    forecasts,  \* server: the slice each handler's fetch or walk appends to
    ferr,       \* server: the error each handler's fetch or walk returned
    fetched,    \* server: the areas each handler asked upstream for, in order
    resp        \* server: what each handler wrote to its client

galeVars == <<pc, warnings, walkErr, matched, last, response, now>>
textVars == <<html, text, tpc>>
reportVars == <<reports, variant, forecast, rpc>>
serveVars == <<server, prefix, upstream, req, spc, loopi, forecasts, ferr, fetched, resp>>
vars == <<galeVars, textVars, reportVars, serveVars>>

Nil == "nil"

(***************************************************************************)
(* Bounds of the model.                                                    *)
(***************************************************************************)
MaxFiles == 3

(***************************************************************************)
(* Time.                                                                   *)
(***************************************************************************)
BaseYear == 2016
Years == {BaseYear - 1, BaseYear}

\* The instant of hour h of day d of year y in UTC, in the location z hours
\* east of UTC.
Time(y, d, h, z) == [year |-> y, day |-> d, hour |-> h, zone |-> z]

\* The times the names of the files embed, parsed as UTC: one of last year,
\* January 1st at midnight and in the morning, a later day.
StampTimes ==
    {Time(BaseYear - 1, 10, 0, 0), Time(BaseYear, 1, 0, 0),
     Time(BaseYear, 1, 8, 0), Time(BaseYear, 10, 0, 0)}

\* The readings of time.Now(), in UTC or one hour east of it: in the last
\* hour of a year in UTC the eastern clock is in the next year.
Nows ==
    {Time(BaseYear - 1, 10, 12, 0), Time(BaseYear - 1, 365, 23, 1),
     Time(BaseYear, 1, 4, 0), Time(BaseYear, 10, 12, 1)}

\* time.Time.Before compares the instants.
Before(a, b) ==
    \/ a.year < b.year
    \/ a.year = b.year /\ a.day < b.day
    \/ a.year = b.year /\ a.day = b.day /\ a.hour < b.hour

IsLeap(y) == (y % 4 = 0 /\ y % 100 # 0) \/ y % 400 = 0

DaysIn(y) == IF IsLeap(y) THEN 366 ELSE 365

\* The clock of the location of t, for a location at or east of UTC.
Local(t) ==
    IF t.hour + t.zone < 24
    THEN [year |-> t.year, day |-> t.day, hour |-> t.hour + t.zone]
    ELSE IF t.day < DaysIn(t.year)
         THEN [year |-> t.year, day |-> t.day + 1,
               hour |-> t.hour + t.zone - 24]
         ELSE [year |-> t.year + 1, day |-> 1, hour |-> t.hour + t.zone - 24]

\* time.Time.YearDay and time.Time.Format read the clock of the location.
YearDay(d) == Local(d).day

Format(d) == Local(d)

\* time.Date(now.Year(), time.January, 1, 0, 0, 0, 0, time.UTC)
Jan1(t) == Time(Local(t).year, 1, 0, 0)

RECURSIVE DaysSinceBase(_)
DaysSinceBase(d) ==
    IF d.year = BaseYear THEN d.day - 1
    ELSE IF d.year < BaseYear
         THEN DaysSinceBase([d EXCEPT !.year = d.year + 1]) - DaysIn(d.year)
         ELSE DaysSinceBase([d EXCEPT !.year = d.year - 1]) + DaysIn(d.year - 1)

\* w.Date.Sub(baseDate).Hours() / 24., a number of days that need not be
\* whole: the fraction num / den.
deltaDays(d) == [num |-> 24 * DaysSinceBase(d) + d.hour, den |-> 24]

(***************************************************************************)
(* The files of the directory.  A name either does not match rePath or     *)
(* embeds a stamp; day 0 is a stamp time.Parse rejects.  A line either     *)
(* announces a warning number (matches reWarning) or does not; the digits  *)
(* of an announcing line either fit 32 bits or do not.  Where the scanner  *)
(* stops on an error instead of giving a line (a line over 64 KiB, a read  *)
(* that fails) the content holds that error.                               *)
(***************************************************************************)
NoAnnounce == [announce |-> FALSE, value |-> 0, fits |-> TRUE, err |-> Nil]
Announce(n) == [announce |-> TRUE, value |-> n, fits |-> TRUE, err |-> Nil]
TooBig == [announce |-> TRUE, value |-> 0, fits |-> FALSE, err |-> Nil]
TooLong ==
    [announce |-> FALSE, value |-> 0, fits |-> TRUE,
     err |-> "bufio.Scanner: token too long"]
ReadFails ==
    [announce |-> FALSE, value |-> 0, fits |-> TRUE,
     err |-> "read: input/output error"]

\* The contents the files are drawn from: no line, no announcing line, one at
\* the first or at a later line, two of them, digits that do not fit, a scan
\* that stops on an error before or after an announcing line.
Contents ==
    {<<>>, <<NoAnnounce>>, <<Announce(0)>>, <<Announce(36)>>,
     <<NoAnnounce, Announce(37)>>, <<Announce(37), Announce(36)>>,
     <<TooBig>>, <<NoAnnounce, TooBig>>, <<Announce(36), TooBig>>,
     <<TooLong>>, <<TooLong, Announce(36)>>, <<Announce(36), TooLong>>,
     <<NoAnnounce, ReadFails>>}

NoMatch == [match |-> FALSE, year |-> 0, day |-> 0, hour |-> 0]
Stamp(y, d, h) == [match |-> TRUE, year |-> y, day |-> d, hour |-> h]

NoFile == [stat |-> "none", regular |-> FALSE, name |-> NoMatch,
           openable |-> FALSE, lines |-> <<>>]
StatErrFile == [NoFile EXCEPT !.stat = "err"]
DirFile == [NoFile EXCEPT !.stat = "ok"]
OtherFile == [stat |-> "ok", regular |-> TRUE, name |-> NoMatch,
              openable |-> TRUE, lines |-> <<Announce(36)>>]
BadStampFiles ==
    {[stat |-> "ok", regular |-> TRUE, name |-> Stamp(y, 0, 0),
      openable |-> TRUE, lines |-> <<Announce(36)>>] : y \in Years}
UnreadableFiles ==
    {[stat |-> "ok", regular |-> TRUE,
      name |-> Stamp(d.year, d.day, d.hour),
      openable |-> FALSE, lines |-> <<>>] : d \in StampTimes}
ReadableFiles ==
    {[stat |-> "ok", regular |-> TRUE,
      name |-> Stamp(d.year, d.day, d.hour),
      openable |-> TRUE, lines |-> c] : d \in StampTimes, c \in Contents}
Files ==
    {StatErrFile, DirFile, OtherFile} \cup BadStampFiles \cup UnreadableFiles
        \cup ReadableFiles

(***************************************************************************)
(* extractWarningNumber: the number the first announcing line holds, 0     *)
(* when the scan reaches the end of the file without one, an error when    *)
(* the file cannot be opened, the digits do not fit or the scan stops on   *)
(* an error (scanner.Err()).                                               *)
(***************************************************************************)
RECURSIVE scanLines(_, _)
scanLines(lines, i) ==
    IF i > Len(lines) THEN [n |-> 0, err |-> Nil]
    ELSE IF lines[i].err # Nil THEN [n |-> 0, err |-> lines[i].err]
    ELSE IF lines[i].announce
         THEN IF lines[i].fits
              THEN [n |-> lines[i].value, err |-> Nil]
              ELSE [n |-> 0, err |-> "strconv.ParseInt"]
         ELSE scanLines(lines, i + 1)

extractWarningNumber(f) ==
    IF ~f.openable THEN [n |-> 0, err |-> "os.Open"]
    ELSE scanLines(f.lines, 1)

\* time.Parse of the stamp rePath captured.
parseStamp(name) ==
    IF name.day >= 1
    THEN [d |-> Time(name.year, name.day, name.hour, 0), err |-> Nil]
    ELSE [d |-> Time(1, 1, 0, 0), err |-> "time.Parse"]

(***************************************************************************)
(* The callback extractWarningNumbers gives to filepath.Walk, applied to   *)
(* file f, the k-th matching file of the walk: the error it returns and    *)
(* the slice after it.  An entry also records, for the properties only,    *)
(* the number detected in its file and the position of the file in the     *)
(* walk.                                                                   *)
(***************************************************************************)
\* The callback of src/gale.go: it appends the entry only when the number is
\* positive (if n > 0).
walkFnGaleGo(ws, f, k) ==
    IF f.stat = "err" THEN [err |-> "lstat", warnings |-> ws]
    ELSE IF ~f.regular THEN [err |-> Nil, warnings |-> ws]
    ELSE IF ~f.name.match THEN [err |-> Nil, warnings |-> ws]
    ELSE LET p == parseStamp(f.name) IN
         IF p.err # Nil THEN [err |-> p.err, warnings |-> ws]
         ELSE LET r == extractWarningNumber(f) IN
              IF r.err # Nil THEN [err |-> r.err, warnings |-> ws]
              ELSE IF r.n > 0
                   THEN [err |-> Nil,
                         warnings |-> Append(ws, [Number |-> r.n, Date |-> p.d,
                                                  detected |-> r.n, ord |-> k])]
                   ELSE [err |-> Nil, warnings |-> ws]

\* The callback of part_003: it appends an entry for every matching file.
walkFn(ws, f, k) ==
    IF f.stat = "err" THEN [err |-> "lstat", warnings |-> ws]
    ELSE IF ~f.regular THEN [err |-> Nil, warnings |-> ws]
    ELSE IF ~f.name.match THEN [err |-> Nil, warnings |-> ws]
    ELSE LET p == parseStamp(f.name) IN
         IF p.err # Nil THEN [err |-> p.err, warnings |-> ws]
         ELSE LET r == extractWarningNumber(f) IN
              IF r.err # Nil THEN [err |-> r.err, warnings |-> ws]
              ELSE [err |-> Nil,
                    warnings |-> Append(ws, [Number |-> r.n, Date |-> p.d,
                                             detected |-> r.n, ord |-> k])]

(***************************************************************************)
(* sort.Sort(sortedWarnings(warnings)), for the slices of up to 12         *)
(* entries the model holds.  Less compares the dates only.  The sort of Go *)
(* 1.19 and later sorts such a slice by insertion; the sort of Go 1.6 to   *)
(* 1.18 first makes one pass that swaps the entries six places apart that  *)
(* are out of order, then sorts by insertion.  Which one runs depends on   *)
(* the toolchain the program is built with.                                *)
(***************************************************************************)
Less(ws, i, j) == Before(ws[i].Date, ws[j].Date)

Swap(ws, i, j) == [ws EXCEPT ![i] = ws[j], ![j] = ws[i]]

\* for j := i; j > a && data.Less(j, j-1); j-- { data.Swap(j, j-1) }
RECURSIVE insertAt(_, _)
insertAt(ws, j) ==
    IF j > 1 /\ Less(ws, j, j - 1) THEN insertAt(Swap(ws, j, j - 1), j - 1)
    ELSE ws

RECURSIVE insertionSortFrom(_, _)
insertionSortFrom(ws, i) ==
    IF i > Len(ws) THEN ws ELSE insertionSortFrom(insertAt(ws, i), i + 1)

insertionSort(ws) == insertionSortFrom(ws, 2)

\* for i := a + 6; i < b; i++ { if data.Less(i, i-6) { data.Swap(i, i-6) } }
RECURSIVE shellPassFrom(_, _)
shellPassFrom(ws, i) ==
    IF i > Len(ws) THEN ws
    ELSE shellPassFrom(IF Less(ws, i, i - 6) THEN Swap(ws, i, i - 6) ELSE ws,
                       i + 1)

shellPass(ws) == shellPassFrom(ws, 7)

\* The slice left in walk order.
sortSkipped(ws) == {ws}

sortOutcomes(ws) == {insertionSort(ws), insertionSort(shellPass(ws))}

(***************************************************************************)
(* The gap-filling loop of extractWarningNumbers.                          *)
(***************************************************************************)
GapSeed == 1

\* The loop with the running number never updated.
RECURSIVE fillFromStale(_, _, _)
fillFromStale(ws, i, num) ==
    IF i > Len(ws) THEN ws
    ELSE IF ws[i].Number # 0
         THEN fillFromStale(ws, i + 1, num)
         ELSE fillFromStale([ws EXCEPT ![i].Number = num], i + 1, num)

RECURSIVE fillFrom(_, _, _)
fillFrom(ws, i, num) ==
    IF i > Len(ws) THEN ws
    ELSE IF ws[i].Number # 0
         THEN fillFrom(ws, i + 1, ws[i].Number)
         ELSE fillFrom([ws EXCEPT ![i].Number = num], i + 1, num)

gapFill(ws) == fillFrom(ws, 1, GapSeed)

(***************************************************************************)
(* serveGaleWarnings after a successful extraction: the two virtual points *)
(* and the two series of the chart.                                        *)
(***************************************************************************)
Virtual(n, d) == [Number |-> n, Date |-> d, detected |-> 0, ord |-> 0]

\* The closing point without the number of the last entry.
augmentNoCarry(ws, t) ==
    LET jan1 == Jan1(t)
        w1 == IF Len(ws) = 0 \/ Before(jan1, ws[1].Date)
              THEN <<Virtual(0, jan1)>> \o ws
              ELSE ws
    IN  Append(w1, Virtual(0, t))

augment(ws, t) ==
    LET jan1 == Jan1(t)
        w1 == IF Len(ws) = 0 \/ Before(jan1, ws[1].Date)
              THEN <<Virtual(0, jan1)>> \o ws
              ELSE ws
    IN  Append(w1, Virtual(w1[Len(w1)].Number, t))

offsetOf(w) ==
    [X |-> deltaDays(w.Date), Y |-> w.Number, Date |-> Format(w.Date),
     YearDay |-> YearDay(w.Date)]

\* The chart rendered whatever the extraction returned.
serveIgnoringErr(ws, err, t) ==
    LET all == augment(ws, t)
        offsets == [i \in 1..Len(all) |-> offsetOf(all[i])]
    IN  [err |-> Nil,
         data |-> offsets,
         refs |-> [i \in 1..Len(all) |->
                      [offsets[i] EXCEPT !.Y = offsets[i].YearDay]]]

serveGaleWarnings(ws, err, t) ==
    IF err # Nil THEN [err |-> err, data |-> <<>>, refs |-> <<>>]
    ELSE LET all == augment(ws, t)
             offsets == [i \in 1..Len(all) |-> offsetOf(all[i])]
         IN  [err |-> Nil,
              data |-> offsets,
              refs |-> [i \in 1..Len(all) |->
                           [offsets[i] EXCEPT !.Y = offsets[i].YearDay]]]

\* serveGaleWarnings of src/gale.go: the series of the entries alone.
serveGaleWarningsGaleGo(ws, err) ==
    IF err # Nil THEN [err |-> err, data |-> <<>>, refs |-> <<>>]
    ELSE LET offsets == [i \in 1..Len(ws) |-> offsetOf(ws[i])]
         IN  [err |-> Nil,
              data |-> offsets,
              refs |-> [i \in 1..Len(ws) |->
                           [offsets[i] EXCEPT !.Y = offsets[i].YearDay]]]

NoTime == Time(0, 0, 0, 0)

NoResponse == [status |-> 0, error |-> Nil, data |-> <<>>, refs |-> <<>>]

handleGaleWarnings(ws, err, t) ==
    LET r == serveGaleWarnings(ws, err, t) IN
    IF r.err # Nil
    THEN [status |-> 500, error |-> r.err, data |-> <<>>, refs |-> <<>>]
    ELSE [status |-> 200, error |-> Nil, data |-> r.data, refs |-> r.refs]

handleGaleWarningsGaleGo(ws, err) ==
    LET r == serveGaleWarningsGaleGo(ws, err) IN
    IF r.err # Nil
    THEN [status |-> 500, error |-> r.err, data |-> <<>>, refs |-> <<>>]
    ELSE [status |-> 200, error |-> Nil, data |-> r.data, refs |-> r.refs]

(***************************************************************************)
(* The gale service as a state machine: the walk hands the files of the    *)
(* directory to the callback one by one and stops at the first error;      *)
(* extractWarningNumbers then sorts, fills the gaps and returns; the       *)
(* handler renders the chart or the error.                                 *)
(***************************************************************************)
GaleIdle ==
    /\ pc = "idle" /\ warnings = <<>> /\ walkErr = Nil
    /\ matched = 0 /\ last = NoFile /\ response = NoResponse /\ now = NoTime

TextIdle == html = <<>> /\ text = <<>> /\ tpc = "idle"

ReportIdle ==
    reports = <<>> /\ variant = "B" /\ forecast = <<>> /\ rpc = "idle"

\* The handlers of the servers: two requests can be in flight.
Reqs == {1, 2}

ServeIdle ==
    /\ server = "idle" /\ prefix = <<>> /\ upstream = <<>>
    /\ req = [r \in Reqs |-> <<>>] /\ spc = [r \in Reqs |-> "off"]
    /\ loopi = [r \in Reqs |-> 0] /\ forecasts = [r \in Reqs |-> <<>>]
    /\ ferr = [r \in Reqs |-> <<>>] /\ fetched = [r \in Reqs |-> <<>>]
    /\ resp = [r \in Reqs |-> <<>>]

InitGale ==
    /\ pc = "walk" /\ warnings = <<>> /\ walkErr = Nil
    /\ matched = 0 /\ last = NoFile /\ response = NoResponse /\ now = NoTime
    /\ TextIdle /\ ReportIdle /\ ServeIdle

Qualifies(f) == f.stat = "ok" /\ f.regular /\ f.name.match

WalkStep ==
    /\ pc = "walk" /\ walkErr = Nil /\ matched < MaxFiles
    /\ \E f \in Files :
        LET r == walkFn(warnings, f, matched + 1) IN
        /\ warnings' = r.warnings
        /\ walkErr' = r.err
        /\ last' = f
        /\ matched' = matched + (IF Qualifies(f) THEN 1 ELSE 0)
    /\ UNCHANGED <<pc, response, now, textVars, reportVars, serveVars>>

ExtractReturn ==
    /\ pc = "walk"
    /\ \E s \in sortOutcomes(warnings) : warnings' = gapFill(s)
    /\ pc' = "extracted"
    /\ UNCHANGED <<walkErr, matched, last, response, now, textVars, reportVars, serveVars>>

HandleGaleWarnings ==
    /\ pc = "extracted"
    /\ \E t \in Nows :
        /\ now' = t
        /\ response' = handleGaleWarnings(warnings, walkErr, t)
    /\ pc' = "done"
    /\ UNCHANGED <<warnings, walkErr, matched, last, textVars, reportVars, serveVars>>

NextGale == WalkStep \/ ExtractReturn \/ HandleGaleWarnings

SpecGale == InitGale /\ [][NextGale]_vars

(***************************************************************************)
(* A directory of up to MaxSorted files of the same few stamps: the walk   *)
(* collects enough entries with equal dates for the sort to move them.     *)
(***************************************************************************)
MaxSorted == 7

TiedFiles ==
    {[stat |-> "ok", regular |-> TRUE, name |-> Stamp(BaseYear, 1, 8),
      openable |-> TRUE, lines |-> <<Announce(36)>>],
     [stat |-> "ok", regular |-> TRUE, name |-> Stamp(BaseYear, 10, 0),
      openable |-> TRUE, lines |-> <<Announce(37)>>],
     [stat |-> "ok", regular |-> TRUE, name |-> Stamp(BaseYear, 10, 0),
      openable |-> TRUE, lines |-> <<NoAnnounce>>]}

WalkTied ==
    /\ pc = "walk" /\ walkErr = Nil /\ matched < MaxSorted
    /\ \E f \in TiedFiles :
        LET r == walkFn(warnings, f, matched + 1) IN
        /\ warnings' = r.warnings
        /\ walkErr' = r.err
        /\ last' = f
        /\ matched' = matched + (IF Qualifies(f) THEN 1 ELSE 0)
    /\ UNCHANGED <<pc, response, now, textVars, reportVars, serveVars>>

NextSort == WalkTied \/ ExtractReturn \/ HandleGaleWarnings

SpecSort == InitGale /\ [][NextSort]_vars

(***************************************************************************)
(* The gale service of src/gale.go: the walk keeps the files with a        *)
(* positive number, extractWarningNumbers returns the slice as the walk    *)
(* left it and the handler renders the entries alone.                      *)
(***************************************************************************)
WalkStepGaleGo ==
    /\ pc = "walk" /\ walkErr = Nil /\ matched < MaxFiles
    /\ \E f \in Files :
        LET r == walkFnGaleGo(warnings, f, matched + 1) IN
        /\ warnings' = r.warnings
        /\ walkErr' = r.err
        /\ last' = f
        /\ matched' = matched + (IF Qualifies(f) THEN 1 ELSE 0)
    /\ UNCHANGED <<pc, response, now, textVars, reportVars, serveVars>>

ExtractReturnGaleGo ==
    /\ pc = "walk"
    /\ pc' = "extracted"
    /\ UNCHANGED <<warnings, walkErr, matched, last, response, now, textVars,
                   reportVars, serveVars>>

HandleGaleWarningsGaleGo ==
    /\ pc = "extracted"
    /\ response' = handleGaleWarningsGaleGo(warnings, walkErr)
    /\ pc' = "done"
    /\ UNCHANGED <<warnings, walkErr, matched, last, now, textVars, reportVars,
                   serveVars>>

NextGaleGo == WalkStepGaleGo \/ ExtractReturnGaleGo \/ HandleGaleWarningsGaleGo

SpecGaleGo == InitGale /\ [][NextGaleGo]_vars

(***************************************************************************)
(* Strings.                                                                *)
(***************************************************************************)
NL == "\n"
BR == <<"<", "b", "r", " ", "/", ">">>

HasPrefix(s, pre) ==
    Len(s) >= Len(pre) /\ SubSeq(s, 1, Len(pre)) = pre

Drop(s, n) == SubSeq(s, n + 1, Len(s))

\* strings.Replace(s, old, new, -1), for a non-empty old.
RECURSIVE ReplaceAll(_, _, _)
ReplaceAll(s, old, new) ==
    IF Len(s) < Len(old) THEN s
    ELSE IF HasPrefix(s, old)
         THEN new \o ReplaceAll(Drop(s, Len(old)), old, new)
         ELSE <<Head(s)>> \o ReplaceAll(Tail(s), old, new)

\* The characters unicode.IsSpace holds for.  Vertical tab, next line
\* (U+0085) and no-break space (U+00A0) are written as themselves; the
\* spaces beyond Latin-1 are written by their code points.
VT == ""
NEL == ""
NBSP == " "

WhiteSpace ==
    {" ", NL, "\t", "\r", "\f", VT, NEL, NBSP,
     "U+1680", "U+2000", "U+2001", "U+2002", "U+2003", "U+2004", "U+2005",
     "U+2006", "U+2007", "U+2008", "U+2009", "U+200A", "U+2028", "U+2029",
     "U+202F", "U+205F", "U+3000"}

IsSpace(c) == c \in WhiteSpace

RECURSIVE TrimLeft(_)
TrimLeft(s) ==
    IF s # <<>> /\ IsSpace(Head(s)) THEN TrimLeft(Tail(s)) ELSE s

RECURSIVE TrimRight(_)
TrimRight(s) ==
    IF s # <<>> /\ IsSpace(s[Len(s)])
    THEN TrimRight(SubSeq(s, 1, Len(s) - 1))
    ELSE s

\* strings.TrimSpace
TrimSpace(s) == TrimRight(TrimLeft(s))

\* reLines.ReplaceAllString(s, "\n"), reLines being `\n+`.
RECURSIVE collapseLines(_)
collapseLines(s) ==
    IF s = <<>> THEN s
    ELSE IF Head(s) = NL /\ Len(s) >= 2 /\ s[2] = NL
         THEN collapseLines(Tail(s))
         ELSE <<Head(s)>> \o collapseLines(Tail(s))

\* The normalizer without the collapsing of newlines.
htmlToTextNoCollapse(h) == TrimSpace(ReplaceAll(h, BR, <<NL>>))

htmlToText(h) == collapseLines(TrimSpace(ReplaceAll(h, BR, <<NL>>)))

(***************************************************************************)
(* The normalizer on its own: every string of up to MaxTokens tokens.      *)
(***************************************************************************)
MaxTokens == 4

Tokens == {<<"a">>, <<" ">>, <<NBSP>>, <<NL>>, BR, <<"<", "b", "r", ">">>}

RECURSIVE Strings(_)
Strings(n) ==
    IF n = 0 THEN {<<>>}
    ELSE LET S == Strings(n - 1) IN S \cup {t \o r : t \in Tokens, r \in S}

InitText ==
    /\ GaleIdle /\ ReportIdle /\ ServeIdle
    /\ tpc = "call" /\ html \in Strings(MaxTokens) /\ text = <<>>

HtmlToText ==
    /\ tpc = "call"
    /\ text' = htmlToText(html)
    /\ tpc' = "ret"
    /\ UNCHANGED <<html, galeVars, reportVars, serveVars>>

NextText == HtmlToText

SpecText == InitText /\ [][NextText]_vars

(***************************************************************************)
(* The bulletin decoders.  Variant B is formatReport of serve.go (two      *)
(* reports, the second one is rendered); variant A is formatReport of the  *)
(* per-area server and of metmar.go (the first bulletin is rendered).      *)
(***************************************************************************)
MER == <<"M", "E", "R", " ", ":">>

RECURSIVE Join(_)
Join(ss) == IF ss = <<>> THEN <<>> ELSE Head(ss) \o Join(Tail(ss))

\* strings.Split(s, sep), for a non-empty sep: the parts between the
\* occurrences of sep, `acc` being the part read so far.
RECURSIVE SplitFrom(_, _, _)
SplitFrom(s, sep, acc) ==
    IF Len(s) < Len(sep) THEN <<acc \o s>>
    ELSE IF HasPrefix(s, sep)
         THEN <<acc>> \o SplitFrom(Drop(s, Len(sep)), sep, <<>>)
         ELSE SplitFrom(Tail(s), sep, Append(acc, Head(s)))

Split(s, sep) == SplitFrom(s, sep, <<>>)

NoErr == [msg |-> "", n |-> 0]

NoForecast == [err |-> NoErr, Id |-> <<>>, Title |-> <<>>, Content |-> <<>>]

Failed(msg, n) == [NoForecast EXCEPT !.err = [msg |-> msg, n |-> n]]

\* serve.go: the loop over the parts of a region.
formatPart(part) ==
    IF part = <<>> THEN <<>>
    ELSE TrimSpace(htmlToText(part)) \o <<NL>>

regionParts(a) ==
    <<a.Situation, a.Observation, a.WindAndSea, a.Swell, a.Weather, a.Visibility>>

formatRegion(a) ==
    LET parts == regionParts(a) IN
    Join([i \in 1..Len(parts) |-> formatPart(parts[i])])

formatEcheance(e) ==
    <<"#", " ">> \o e.Title \o <<NL, NL>>
        \o Join([i \in 1..Len(e.Regions) |-> formatRegion(e.Regions[i])])
        \o <<NL, NL>>

\* The decoder rendering the first of the two reports.
formatReportFirst(rs) ==
    IF Len(rs) # 2 THEN Failed("2 reports expected, go %d", Len(rs))
    ELSE LET r == rs[1] IN
         [err |-> NoErr, Id |-> <<>>, Title |-> r.Title,
          Content |->
              r.Title \o <<NL, NL>>
                  \o htmlToText(r.Header) \o <<NL>>
                  \o htmlToText(r.Footer) \o <<NL, NL>>
                  \o htmlToText(r.Special) \o <<NL, NL>>
                  \o Join([i \in 1..Len(r.Echeances) |->
                              formatEcheance(r.Echeances[i])])]

formatReport(rs) ==
    IF Len(rs) # 2 THEN Failed("2 reports expected, go %d", Len(rs))
    ELSE LET r == rs[2] IN
         [err |-> NoErr, Id |-> <<>>, Title |-> r.Title,
          Content |->
              r.Title \o <<NL, NL>>
                  \o htmlToText(r.Header) \o <<NL>>
                  \o htmlToText(r.Footer) \o <<NL, NL>>
                  \o htmlToText(r.Special) \o <<NL, NL>>
                  \o Join([i \in 1..Len(r.Echeances) |->
                              formatEcheance(r.Echeances[i])])]

\* Variant A: the closure wif of formatReport.
wif(s) == IF s # <<>> THEN ReplaceAll(s, BR, <<NL>>) \o <<NL>> ELSE <<>>

windAndSea(s) ==
    LET parts == Split(s, MER) IN
    IF Len(parts) = 2
    THEN wif(parts[1]) \o wif(MER \o parts[2])
    ELSE wif(s)

formatArea(r) ==
    wif(r.Situation) \o wif(r.Observation) \o windAndSea(r.WindAndSea)
        \o wif(r.Waves) \o wif(r.Visibility) \o wif(r.Confidence)

BulletinSpecial ==
    <<"B", "u", "l", "l", "e", "t", "i", "n", " ",
      "s", "p", "é", "c", "i", "a", "l", ":", " ">>

formatReportA(b) ==
    b.Title \o <<NL>> \o BulletinSpecial \o b.Special \o <<NL>> \o <<NL>>
        \o Join([i \in 1..Len(b.Echeances) |->
                    b.Echeances[i].Title \o <<NL>>
                        \o Join([j \in 1..Len(b.Echeances[i].Areas) |->
                                    formatArea(b.Echeances[i].Areas[j])])
                        \o <<NL>>])

fetchWeather(rs) ==
    IF Len(rs) <= 0 THEN Failed("no report retrieved", 0)
    ELSE [NoForecast EXCEPT !.Content = formatReportA(rs[1])]

\* metmar.go: the same decoder in the single-area server.
wifMetmar(s) == IF s # <<>> THEN ReplaceAll(s, BR, <<NL>>) \o <<NL>> ELSE <<>>

formatAreaMetmar(r) ==
    LET parts == Split(r.WindAndSea, MER) IN
    wifMetmar(r.Situation) \o wifMetmar(r.Observation)
        \o (IF Len(parts) = 2
            THEN wifMetmar(parts[1]) \o wifMetmar(MER \o parts[2])
            ELSE wifMetmar(r.WindAndSea))
        \o wifMetmar(r.Waves) \o wifMetmar(r.Visibility)
        \o wifMetmar(r.Confidence)

formatReportMetmar(b) ==
    b.Title \o <<NL>> \o BulletinSpecial \o b.Special \o <<NL>> \o <<NL>>
        \o Join([i \in 1..Len(b.Echeances) |->
                    b.Echeances[i].Title \o <<NL>>
                        \o Join([j \in 1..Len(b.Echeances[i].Areas) |->
                                    formatAreaMetmar(b.Echeances[i].Areas[j])])
                        \o <<NL>>])

fetchWeatherMetmar(rs) ==
    IF Len(rs) <= 0 THEN Failed("no report retrieved", 0)
    ELSE [NoForecast EXCEPT !.Content = formatReportMetmar(rs[1])]

(***************************************************************************)
(* The upstream documents the decoders are run on.  The rendered report    *)
(* holds at most one horizon with at most one region, each field of which  *)
(* is empty, a text of its own (S, O, W, H, T or I, V), or a text that     *)
(* normalizes to nothing; the other reports of the response hold texts     *)
(* found nowhere else.                                                     *)
(***************************************************************************)
MaxReports == 3

SituationTexts == {<<>>, <<"S">>, BR, <<" ">>}
WindAndSeaTexts ==
    {<<>>, <<"W">>, BR, <<"W">> \o MER \o <<"G">>, MER \o <<"G">>,
     <<"W">> \o MER \o <<"G">> \o MER \o <<"K">>}
VisibilityTexts == {<<>>, <<"V">>, BR}

RegionsB ==
    [Situation : SituationTexts, Observation : {<<>>, <<"O">>},
     WindAndSea : WindAndSeaTexts, Swell : {<<>>, <<"H">>},
     Weather : {<<>>, <<"T">>}, Visibility : VisibilityTexts]

RegionsA ==
    [Situation : SituationTexts, Observation : {<<>>, <<"O">>},
     WindAndSea : WindAndSeaTexts, Waves : {<<>>, <<"H">>},
     Visibility : VisibilityTexts, Confidence : {<<>>, <<"I">>}]

EcheancesB ==
    {<<>>, <<[Title |-> <<"D">>, Regions |-> <<>>]>>}
        \cup {<<[Title |-> <<"D">>, Regions |-> <<a>>]>> : a \in RegionsB}

EcheancesA ==
    {<<>>, <<[Title |-> <<"D">>, Areas |-> <<>>]>>}
        \cup {<<[Title |-> <<"D">>, Areas |-> <<a>>]>> : a \in RegionsA}

OtherEcheancesB ==
    {<<>>,
     <<[Title |-> <<"z">>,
        Regions |-> <<[Situation |-> <<"f">>, Observation |-> <<"g">>,
                       WindAndSea |-> <<"h">>, Swell |-> <<"j">>,
                       Weather |-> <<"k">>, Visibility |-> <<"q">>]>>]>>}

OtherEcheancesA ==
    {<<>>,
     <<[Title |-> <<"z">>,
        Areas |-> <<[Situation |-> <<"f">>, Observation |-> <<"g">>,
                     WindAndSea |-> <<"h">>, Waves |-> <<"j">>,
                     Visibility |-> <<"q">>, Confidence |-> <<"k">>]>>]>>}

Digit(i) == <<"0", "1", "2", "3", "4", "5", "6", "7", "8", "9">>[i + 1]

ReportB(i, es, mine) ==
    [Title |-> <<Digit(i)>>,
     Special |-> IF mine THEN <<"Q">> ELSE <<"x">>,
     Header |-> IF mine THEN <<"P">> \o BR \o BR \o <<"P">> ELSE <<"y">>,
     Footer |-> IF mine THEN <<>> ELSE <<"y">>,
     Echeances |-> es]

BulletinA(i, es, mine) ==
    [Title |-> <<Digit(i)>>,
     Special |-> IF mine THEN <<"Q">> ELSE <<"x">>,
     Echeances |-> es]

ResponsesB ==
    {[i \in 1..n |-> IF i = 2 THEN ReportB(i, es, TRUE) ELSE ReportB(i, os, FALSE)] :
        n \in 0..MaxReports, es \in EcheancesB, os \in OtherEcheancesB}

ResponsesA ==
    {[i \in 1..n |-> IF i = 1 THEN BulletinA(i, es, TRUE) ELSE BulletinA(i, os, FALSE)] :
        n \in 0..MaxReports, es \in EcheancesA, os \in OtherEcheancesA}

InitReport ==
    /\ GaleIdle /\ TextIdle /\ ServeIdle
    /\ rpc = "call" /\ forecast = NoForecast
    /\ variant \in {"B", "A", "A0"}
    /\ reports \in (IF variant = "B" THEN ResponsesB ELSE ResponsesA)

FormatReport ==
    /\ rpc = "call" /\ variant = "B"
    /\ forecast' = formatReport(reports)
    /\ rpc' = "ret"
    /\ UNCHANGED <<reports, variant, galeVars, textVars, serveVars>>

FetchWeather ==
    /\ rpc = "call" /\ variant = "A"
    /\ forecast' = fetchWeather(reports)
    /\ rpc' = "ret"
    /\ UNCHANGED <<reports, variant, galeVars, textVars, serveVars>>

FetchWeatherMetmar ==
    /\ rpc = "call" /\ variant = "A0"
    /\ forecast' = fetchWeatherMetmar(reports)
    /\ rpc' = "ret"
    /\ UNCHANGED <<reports, variant, galeVars, textVars, serveVars>>

NextReport == FormatReport \/ FetchWeather \/ FetchWeatherMetmar

SpecReport == InitReport /\ [][NextReport]_vars

(***************************************************************************)
(* The forecast servers.  serve.go fetches the bulletins of nine areas and *)
(* decodes each with formatReport; the page server fetches one page and    *)
(* reads every zone of it.  Both answer the area index at "/" and a report *)
(* at "/areas/<id>", under the prefix of the command line, with the hash   *)
(* of the body as its ETag; the ServeMux redirects a path that is not      *)
(* clean and knows no path outside the prefix.  An error is the text of    *)
(* its message, error(nil) the empty text.                                 *)
(***************************************************************************)
NAreas == 9
Areas == 1..NAreas

NoError == <<>>

NoHeader == <<>>

\* strconv.FormatInt(int64(i), 10), for i >= 0.
RECURSIVE FormatInt(_)
FormatInt(i) ==
    IF i < 10 THEN <<Digit(i)>>
    ELSE FormatInt(i \div 10) \o <<Digit(i % 10)>>

urlOf(i) ==
    <<"http://www.meteofrance.com/mf3-rpc-portlet/rest/bulletins/cote/">>
        \o FormatInt(i) \o <<"/bulletinsMarineMetropole">>

\* What upstream answers for one URL: status 0 is no answer at all; a body
\* is a JSON value ("json"), one cut short ("cut"), nothing ("empty") or a
\* page of HTML ("html").
httpGet(doc, url) ==
    IF doc.status = 0
    THEN <<"Get ">> \o url \o <<": connection refused">>
    ELSE IF doc.status # 200
         THEN <<"got ">> \o FormatInt(doc.status) \o <<" fetching ">> \o url
         ELSE NoError

jsonGet(doc, url) ==
    LET err == httpGet(doc, url) IN
    IF err # NoError THEN [reports |-> <<>>, err |-> err]
    ELSE IF doc.body = "cut"
         THEN [reports |-> <<>>, err |-> <<"unexpected EOF">>]
    ELSE IF doc.body = "empty"
         THEN [reports |-> <<>>, err |-> <<"EOF">>]
    ELSE IF doc.body = "html"
         THEN [reports |-> <<>>,
               err |-> <<"invalid character '<' looking for beginning of value">>]
    ELSE [reports |-> doc.reports, err |-> NoError]

\* The text of the error formatReport returns: its format and the count.
errorText(e) == <<"2 reports expected, go ">> \o FormatInt(e.n)

NoEntry == [Id |-> <<>>, Title |-> <<>>, Content |-> <<>>]

\* One turn of the loop of fetchForecasts that gives up nothing: an area
\* that fails is left out and the loop goes on.
loopStepSkipping(fs, doc, i) ==
    LET j == jsonGet(doc, urlOf(i))
        f == formatReport(j.reports)
    IN  IF j.err # NoError \/ f.err # NoErr
        THEN [forecasts |-> fs, err |-> NoError]
        ELSE [forecasts |->
                  Append(fs, [Id |-> FormatInt(i), Title |-> f.Title,
                              Content |-> f.Content]),
              err |-> NoError]

\* One turn of the loop of fetchForecasts, for area i: the slice and the
\* error after it; with an error the function returns (nil, err).
loopStep(fs, doc, i) ==
    LET j == jsonGet(doc, urlOf(i)) IN
    IF j.err # NoError THEN [forecasts |-> <<>>, err |-> j.err]
    ELSE LET f == formatReport(j.reports) IN
         IF f.err # NoErr
         THEN [forecasts |-> <<>>, err |-> errorText(f.err)]
         ELSE [forecasts |->
                   Append(fs, [Id |-> FormatInt(i), Title |-> f.Title,
                               Content |-> f.Content]),
               err |-> NoError]

RECURSIVE fetchForecastsFrom(_, _, _)
fetchForecastsFrom(up, i, fs) ==
    IF i > NAreas THEN [forecasts |-> fs, err |-> NoError]
    ELSE LET s == loopStep(fs, up[i], i) IN
         IF s.err # NoError THEN s
         ELSE fetchForecastsFrom(up, i + 1, s.forecasts)

fetchForecasts(up) == fetchForecastsFrom(up, 1, <<>>)

(***************************************************************************)
(* The page server: htmlToText over the spans of a zone, parseWeather and  *)
(* fetchForecasts.                                                         *)
(***************************************************************************)
pageURL == <<"http://vigiprevi.meteofrance.com/data/VBFR02_LFPW_.txt">>

htmlToTextSpans(spans) ==
    Join([i \in 1..Len(spans) |->
             (IF spans[i].class \in {"titre2", "titre3"} THEN <<NL>> ELSE <<>>)
                 \o TrimSpace(spans[i].text) \o <<NL>>])

parseWeather(zones) ==
    [i \in 1..Len(zones) |->
        [Id |-> zones[i].id, Title |-> zones[i].title,
         Content |-> htmlToTextSpans(zones[i].spans)]]

fetchForecastsPage(page) ==
    LET err == httpGet(page, pageURL) IN
    IF err # NoError THEN [forecasts |-> <<>>, err |-> err]
    ELSE LET fs == parseWeather(page.zones) IN
         IF Len(fs) <= 0
         THEN [forecasts |-> <<>>, err |-> <<"no forecast found">>]
         ELSE [forecasts |-> fs, err |-> NoError]

(***************************************************************************)
(* Rendering and serving, the same code in both servers.                   *)
(***************************************************************************)
htmlTemplateHead ==
    "<html>\n<head>\n\t<title>Marine weather forecasts in Brest area</title>\n</head>\n<body>\n\t"

htmlTemplateTail == "\n</body>\n</html>\n"

\* t.Execute over the areas; the ids and titles of the model hold no
\* character the template escapes.
formatAreas(fs) ==
    <<htmlTemplateHead>>
        \o Join([i \in 1..Len(fs) |->
                    <<"\n\t\t<a href=\"">> \o (<<"areas/">> \o fs[i].Id)
                        \o <<"\">">> \o fs[i].Title \o <<"</a><br/>\n\t">>])
        \o <<htmlTemplateTail>>

renderAreas(fs, err) ==
    IF err # NoError THEN [text |-> <<>>, err |-> err]
    ELSE [text |-> formatAreas(fs), err |-> NoError]

\* The lookup falling back on the first forecast of the batch.
renderForecastFirst(fs, err, id) ==
    IF err # NoError THEN [text |-> <<>>, err |-> err]
    ELSE LET found == {k \in 1..Len(fs) : fs[k].Id = id}
             k0 == IF found = {} THEN 1
                   ELSE CHOOSE k \in found : \A m \in found : k <= m
         IN  [text |-> fs[k0].Content, err |-> NoError]

renderForecast(fs, err, id) ==
    IF err # NoError THEN [text |-> <<>>, err |-> err]
    ELSE LET found == {k \in 1..Len(fs) : fs[k].Id = id}
             forecast0 == IF found = {} THEN NoEntry
                          ELSE fs[CHOOSE k \in found : \A m \in found : k <= m]
         IN  IF forecast0.Id = <<>>
             THEN [text |-> <<>>, err |-> <<"cannot find forecast: ">> \o id]
             ELSE [text |-> forecast0.Content, err |-> NoError]

\* hex.EncodeToString(sha256.Sum256(report)): SHA-256 is taken to be free of
\* collisions, and a digest is never the empty string.
hashReport(report) == <<"sha256">> \o report

\* path.Base
RECURSIVE TrimSlashes(_)
TrimSlashes(p) ==
    IF p # <<>> /\ p[Len(p)] = "/" THEN TrimSlashes(SubSeq(p, 1, Len(p) - 1))
    ELSE p

RECURSIVE LastElement(_)
LastElement(p) ==
    IF p = <<>> \/ p[Len(p)] = "/" THEN <<>>
    ELSE Append(LastElement(SubSeq(p, 1, Len(p) - 1)), p[Len(p)])

Base(p) ==
    IF p = <<>> THEN <<".">>
    ELSE LET q == TrimSlashes(p) IN
         IF q = <<>> THEN <<"/">> ELSE LastElement(q)

AreasPrefix == <<"/", "a", "r", "e", "a", "s", "/">>

\* path.Clean of the elements of a rooted path: empty elements and "." are
\* dropped, ".." drops the element before it and is dropped at the root.
RECURSIVE cleanElements(_, _)
cleanElements(es, acc) ==
    IF es = <<>> THEN acc
    ELSE IF Head(es) = <<>> \/ Head(es) = <<".">>
         THEN cleanElements(Tail(es), acc)
    ELSE IF Head(es) = <<".", ".">>
         THEN cleanElements(Tail(es),
                            IF acc = <<>> THEN <<>>
                            ELSE SubSeq(acc, 1, Len(acc) - 1))
    ELSE cleanElements(Tail(es), Append(acc, Head(es)))

\* cleanPath of net/http: the canonical path, rooted, with the trailing
\* slash of the path kept.
cleanPath(p) ==
    IF p = <<>> THEN <<"/">>
    ELSE LET q == IF p[1] # "/" THEN <<"/">> \o p ELSE p
             es == cleanElements(Split(q, <<"/">>), <<>>)
             np == IF es = <<>> THEN <<"/">>
                   ELSE Join([i \in 1..Len(es) |-> <<"/">> \o es[i]])
         IN  IF q[Len(q)] = "/" /\ np # <<"/">> THEN np \o <<"/">> ELSE np

\* url.URL{Path: p}.String(), for the characters the paths of the model
\* hold: a newline is escaped, letters, digits, "." and "/" are not.
escapedPath(p) ==
    Join([i \in 1..Len(p) |-> IF p[i] = NL THEN <<"%", "0", "A">> ELSE <<p[i]>>])

\* The ServeMux of serveFn, with the patterns pre + "/" and pre + "/areas/":
\* a path that is a pattern without its trailing slash, or that is not its
\* own clean path, is redirected; otherwise the longest pattern the path
\* begins with gives the handler, and no pattern the NotFound handler.
Route(pre, p) ==
    LET c == cleanPath(p)
        patterns == {pre \o <<"/">>, pre \o AreasPrefix}
    IN  IF c \notin patterns /\ (c \o <<"/">>) \in patterns
        THEN [handler |-> "redirect", location |-> escapedPath(c \o <<"/">>)]
        ELSE IF c # p
        THEN [handler |-> "redirect", location |-> escapedPath(c)]
        ELSE IF HasPrefix(p, pre \o AreasPrefix)
        THEN [handler |-> "serveForecast", location |-> NoHeader]
        ELSE IF HasPrefix(p, pre \o <<"/">>)
        THEN [handler |-> "serveAreas", location |-> NoHeader]
        ELSE [handler |-> "notfound", location |-> NoHeader]

\* What the ServeMux answers itself to a GET: http.RedirectHandler with
\* StatusMovedPermanently, or http.NotFound.
muxAnswer(route) ==
    IF route.handler = "redirect"
    THEN [status |-> 301, contentType |-> "text/html; charset=utf-8",
          etag |-> NoHeader, location |-> route.location,
          body |-> <<"<a href=\"">> \o route.location
                      \o <<"\">Moved Permanently</a>.\n\n">>]
    ELSE [status |-> 404, contentType |-> "text/plain; charset=utf-8",
          etag |-> NoHeader, location |-> NoHeader,
          body |-> <<"404 page not found\n">>]

ErrorResponse(err) ==
    [status |-> 500, contentType |-> "text/plain;charset=utf-8",
     etag |-> NoHeader, location |-> NoHeader,
     body |-> <<"error: ">> \o err \o <<NL>>]

Conditional(contentType, report, rq) ==
    LET h == hashReport(report) IN
    IF rq.ifNoneMatch = h
    THEN [status |-> 304, contentType |-> contentType, etag |-> h,
          location |-> NoHeader, body |-> <<>>]
    ELSE [status |-> 200, contentType |-> contentType, etag |-> h,
          location |-> NoHeader, body |-> report]

serveAreas(fs, err, rq) ==
    LET r == renderAreas(fs, err) IN
    IF r.err # NoError THEN ErrorResponse(r.err)
    ELSE Conditional("text/html;charset=utf-8", r.text, rq)

\* The handler answering the body whatever the request's validator.
serveForecastAlways(fs, err, rq) ==
    LET r == renderForecast(fs, err, Base(rq.path)) IN
    IF r.err # NoError THEN ErrorResponse(r.err)
    ELSE [status |-> 200, contentType |-> "text/plain;charset=utf-8",
          etag |-> hashReport(r.text), location |-> NoHeader,
          body |-> r.text]

serveForecast(fs, err, rq) ==
    LET r == renderForecast(fs, err, Base(rq.path)) IN
    IF r.err # NoError THEN ErrorResponse(r.err)
    ELSE Conditional("text/plain;charset=utf-8", r.text, rq)

(***************************************************************************)
(* What upstream answers.  The bulletins of an area are two reports, the   *)
(* second one for the coast; every area answers its normal bulletin but    *)
(* one, which answers anything: another bulletin, an HTTP error, nothing,  *)
(* a body that is no JSON value, one report or three.                      *)
(***************************************************************************)
AreaReport(title, es) ==
    [Title |-> title, Special |-> <<>>, Header |-> <<>>, Footer |-> <<>>,
     Echeances |-> es]

OffshoreReport == AreaReport(<<"L">>, <<>>)

Tomorrow ==
    <<[Title |-> <<"D">>,
       Regions |-> <<[Situation |-> <<"S">>, Observation |-> <<>>,
                      WindAndSea |-> <<>>, Swell |-> <<>>, Weather |-> <<>>,
                      Visibility |-> <<>>]>>]>>

OkDoc(rs) == [status |-> 200, body |-> "json", reports |-> rs]

NormalDoc(i) ==
    OkDoc(<<OffshoreReport, AreaReport(<<"A">> \o FormatInt(i), <<>>)>>)

DocsOf(i) ==
    {NormalDoc(i),
     OkDoc(<<OffshoreReport, AreaReport(<<"A">> \o FormatInt(i), Tomorrow)>>),
     OkDoc(<<OffshoreReport>>),
     OkDoc(<<OffshoreReport, OffshoreReport, OffshoreReport>>),
     [status |-> 200, body |-> "cut", reports |-> <<>>],
     [status |-> 200, body |-> "empty", reports |-> <<>>],
     [status |-> 200, body |-> "html", reports |-> <<>>],
     [status |-> 404, body |-> "html", reports |-> <<>>],
     [status |-> 0, body |-> "empty", reports |-> <<>>]}

NormalUpstream == [i \in Areas |-> NormalDoc(i)]

UpstreamsB(K) ==
    UNION {{[NormalUpstream EXCEPT ![k] = d] : d \in DocsOf(k)} : k \in K}

\* The zones of the page: two with the same id, one without an id, one
\* without any text.
Zones ==
    {[id |-> <<"a">>, title |-> <<"T">>,
      spans |-> <<[class |-> "titre2", text |-> <<" ", "X", " ">>]>>],
     [id |-> <<"a">>, title |-> <<"U">>,
      spans |-> <<[class |-> "", text |-> <<"Y">>]>>],
     [id |-> <<>>, title |-> <<"V">>,
      spans |-> <<[class |-> "", text |-> <<"Z">>]>>],
     [id |-> <<"b">>, title |-> <<"W">>, spans |-> <<>>]}

Pages ==
    {[status |-> 404, zones |-> <<>>], [status |-> 200, zones |-> <<>>]}
        \cup {[status |-> 200, zones |-> <<z>>] : z \in Zones}
        \cup {[status |-> 200, zones |-> <<y, z>>] : y \in Zones, z \in Zones}

\* The values of --prefix: none, as by default, or "/m".
Prefixes == {<<>>, <<"/", "m">>}

\* The requests: under the prefix the index, a report by its id, with a
\* slash after it, an id no batch holds, one that holds a newline (%0A in
\* the URL), no id, "/areas" without its slash, paths with an empty
\* element or with ".."; the path "/x", outside the prefix when there is
\* one; and as If-None-Match nothing or the ETag of an earlier answer.
PathsB(pre) ==
    {pre \o <<"/">>, pre \o AreasPrefix \o <<"1">>,
     pre \o AreasPrefix \o <<"9", "/">>, pre \o AreasPrefix \o <<"x">>,
     pre \o AreasPrefix \o <<"x", NL, "y">>, pre \o AreasPrefix,
     pre \o <<"/", "a", "r", "e", "a", "s">>,
     pre \o AreasPrefix \o <<"9", "/", "/">>,
     pre \o <<"/", "a", "/", ".", ".">> \o AreasPrefix \o <<"1">>,
     <<"/", "x">>}

ValidatorsB ==
    {NoHeader,
     hashReport(formatReport(NormalDoc(1).reports).Content),
     hashReport(formatAreas(fetchForecasts(NormalUpstream).forecasts))}

PathsC(pre) ==
    {pre \o <<"/">>, pre \o AreasPrefix \o <<"a">>,
     pre \o AreasPrefix \o <<"b">>, pre \o AreasPrefix,
     pre \o <<"/", "a", "r", "e", "a", "s">>, <<"/", "/">>}

ValidatorsC == {NoHeader, hashReport(<<NL, "X", NL>>), hashReport(<<>>)}

RequestsB(pre) == [path : PathsB(pre), ifNoneMatch : ValidatorsB]

RequestsC(pre) == [path : PathsC(pre), ifNoneMatch : ValidatorsC]

(***************************************************************************)
(* A handler as a state machine: it fetches, area by area in serve.go, and *)
(* then answers.  Every call of fetchForecasts makes its own slice.        *)
(***************************************************************************)
sliceShared(r) == 1

sliceOf(r) == r

Started(rs) ==
    /\ spc = [r \in Reqs |-> IF r \in rs THEN "fetch" ELSE "off"]
    /\ loopi = [r \in Reqs |-> IF r \in rs THEN 1 ELSE 0]
    /\ forecasts = [r \in Reqs |-> <<>>]
    /\ ferr = [r \in Reqs |-> NoError]
    /\ fetched = [r \in Reqs |-> <<>>]
    /\ resp = [r \in Reqs |-> <<>>]

InitServe ==
    /\ GaleIdle /\ TextIdle /\ ReportIdle
    /\ server \in {"B", "C"}
    /\ prefix \in Prefixes
    /\ upstream \in (IF server = "B" THEN UpstreamsB(Areas) ELSE Pages)
    /\ \E rq \in (IF server = "B" THEN RequestsB(prefix)
                  ELSE RequestsC(prefix)) :
           req = [r \in Reqs |-> IF r = 1 THEN rq ELSE <<>>]
    /\ Started({1})

\* The handler the ServeMux gives the request of r to.
Handler(r) == Route(prefix, req[r].path).handler

Handlers == {"serveAreas", "serveForecast"}

\* The ServeMux answers the request of r itself: no handler runs.
MuxAnswers(r) ==
    /\ server \in {"B", "C"} /\ spc[r] = "fetch"
    /\ Handler(r) \notin Handlers
    /\ resp' = [resp EXCEPT ![r] = muxAnswer(Route(prefix, req[r].path))]
    /\ spc' = [spc EXCEPT ![r] = "done"]
    /\ UNCHANGED <<server, prefix, upstream, req, loopi, forecasts, ferr,
                   fetched, galeVars, textVars, reportVars>>

FetchArea(r) ==
    /\ server = "B" /\ spc[r] = "fetch"
    /\ Handler(r) \in Handlers
    /\ LET i == loopi[r]
           s == loopStep(forecasts[sliceOf(r)], upstream[i], i)
       IN  /\ forecasts' = [forecasts EXCEPT ![sliceOf(r)] = s.forecasts]
           /\ ferr' = [ferr EXCEPT ![r] = s.err]
           /\ fetched' = [fetched EXCEPT ![r] = Append(@, i)]
           /\ loopi' = [loopi EXCEPT ![r] = IF s.err # NoError THEN i ELSE i + 1]
           /\ spc' = [spc EXCEPT ![r] =
                         IF s.err # NoError \/ i + 1 > NAreas
                         THEN "fetched" ELSE "fetch"]
    /\ UNCHANGED <<server, prefix, upstream, req, resp, galeVars, textVars, reportVars>>

FetchPage(r) ==
    /\ server = "C" /\ spc[r] = "fetch"
    /\ Handler(r) \in Handlers
    /\ LET s == fetchForecastsPage(upstream) IN
           /\ forecasts' = [forecasts EXCEPT ![sliceOf(r)] = s.forecasts]
           /\ ferr' = [ferr EXCEPT ![r] = s.err]
    /\ fetched' = [fetched EXCEPT ![r] = Append(@, 0)]
    /\ spc' = [spc EXCEPT ![r] = "fetched"]
    /\ UNCHANGED <<server, prefix, upstream, req, loopi, resp, galeVars, textVars,
                   reportVars>>

ServeAreas(r) ==
    /\ server \in {"B", "C"} /\ spc[r] = "fetched"
    /\ Handler(r) = "serveAreas"
    /\ resp' = [resp EXCEPT ![r] =
                   serveAreas(forecasts[sliceOf(r)], ferr[r], req[r])]
    /\ spc' = [spc EXCEPT ![r] = "done"]
    /\ UNCHANGED <<server, prefix, upstream, req, loopi, forecasts, ferr, fetched,
                   galeVars, textVars, reportVars>>

ServeForecast(r) ==
    /\ server \in {"B", "C"} /\ spc[r] = "fetched"
    /\ Handler(r) = "serveForecast"
    /\ resp' = [resp EXCEPT ![r] =
                   serveForecast(forecasts[sliceOf(r)], ferr[r], req[r])]
    /\ spc' = [spc EXCEPT ![r] = "done"]
    /\ UNCHANGED <<server, prefix, upstream, req, loopi, forecasts, ferr, fetched,
                   galeVars, textVars, reportVars>>

NextServe ==
    \E r \in Reqs :
        \/ MuxAnswers(r)
        \/ FetchArea(r) \/ FetchPage(r) \/ ServeAreas(r) \/ ServeForecast(r)

SpecServe == InitServe /\ [][NextServe]_vars

(***************************************************************************)
(* Handlers in flight together.  net/http runs every request in its own    *)
(* goroutine: two handlers of the same server take their steps in any      *)
(* order, against the same upstream answers or the same directory.  The    *)
(* gale handler walks the directory file by file with a slice of its own,  *)
(* then sorts, fills the gaps and answers.                                 *)
(***************************************************************************)
\* filepath.Walk over the files from the i-th on.
RECURSIVE walkFrom(_, _, _)
walkFrom(dir, i, ws) ==
    IF i > Len(dir) THEN [warnings |-> ws, err |-> Nil]
    ELSE LET s == walkFn(ws, dir[i], i) IN
         IF s.err # Nil THEN s ELSE walkFrom(dir, i + 1, s.warnings)

\* Every answer handleGaleWarnings can give for the directory.
galeResponses(dir) ==
    LET w == walkFrom(dir, 1, <<>>) IN
    {handleGaleWarnings(gapFill(s), w.err, t) :
        s \in sortOutcomes(w.warnings), t \in Nows}

GaleFile(d, c) ==
    [stat |-> "ok", regular |-> TRUE, name |-> Stamp(BaseYear, d, 8),
     openable |-> TRUE, lines |-> c]

\* The directories: up to two files, with a number, without one, with the
\* same stamp or not, unreadable, or of another name.
DirFiles ==
    {GaleFile(1, <<Announce(36)>>), GaleFile(10, <<NoAnnounce>>),
     GaleFile(10, <<Announce(37)>>), GaleFile(1, <<TooBig>>), OtherFile}

Dirs ==
    {<<>>} \cup {<<f>> : f \in DirFiles}
        \cup {<<f, g>> : f \in DirFiles, g \in DirFiles}

PathsConc ==
    {<<"/">>, AreasPrefix \o <<"1">>, AreasPrefix \o <<"x">>,
     <<"/", "a", "r", "e", "a", "s">>}

ValidatorsConc ==
    {NoHeader, hashReport(formatReport(NormalDoc(1).reports).Content)}

RequestsConc == [path : PathsConc, ifNoneMatch : ValidatorsConc]

InitConc ==
    /\ GaleIdle /\ TextIdle /\ ReportIdle
    /\ server \in {"B", "C", "gale"}
    /\ prefix = <<>>
    /\ upstream \in (IF server = "B" THEN UpstreamsB(Areas)
                     ELSE IF server = "C" THEN Pages ELSE Dirs)
    /\ req \in [Reqs -> IF server = "B" THEN RequestsConc
                        ELSE IF server = "C" THEN RequestsC(prefix)
                        ELSE {[path |-> <<"/">>, ifNoneMatch |-> NoHeader]}]
    /\ spc = [r \in Reqs |-> "fetch"]
    /\ loopi = [r \in Reqs |-> 1]
    /\ forecasts = [r \in Reqs |-> <<>>]
    /\ ferr = [r \in Reqs |-> IF server = "gale" THEN Nil ELSE NoError]
    /\ fetched = [r \in Reqs |-> <<>>]
    /\ resp = [r \in Reqs |-> <<>>]

\* The walk of handler r hands the next file to the callback.
GaleWalk(r) ==
    /\ server = "gale" /\ spc[r] = "fetch"
    /\ ferr[r] = Nil /\ loopi[r] <= Len(upstream)
    /\ LET i == loopi[r]
           s == walkFn(forecasts[sliceOf(r)], upstream[i], i)
       IN  /\ forecasts' = [forecasts EXCEPT ![sliceOf(r)] = s.warnings]
           /\ ferr' = [ferr EXCEPT ![r] = s.err]
           /\ fetched' = [fetched EXCEPT ![r] = Append(@, i)]
           /\ loopi' = [loopi EXCEPT ![r] = i + 1]
    /\ UNCHANGED <<server, prefix, upstream, req, spc, resp, galeVars, textVars,
                   reportVars>>

\* The walk of handler r is over: extractWarningNumbers sorts, fills the
\* gaps and returns, and handleGaleWarnings answers.
GaleServe(r) ==
    /\ server = "gale" /\ spc[r] = "fetch"
    /\ ferr[r] # Nil \/ loopi[r] > Len(upstream)
    /\ \E s \in sortOutcomes(forecasts[sliceOf(r)]), t \in Nows :
           resp' = [resp EXCEPT ![r] = handleGaleWarnings(gapFill(s), ferr[r], t)]
    /\ spc' = [spc EXCEPT ![r] = "done"]
    /\ UNCHANGED <<server, prefix, upstream, req, loopi, forecasts, ferr, fetched,
                   galeVars, textVars, reportVars>>

NextConc ==
    \E r \in Reqs :
        \/ MuxAnswers(r)
        \/ FetchArea(r) \/ FetchPage(r) \/ ServeAreas(r) \/ ServeForecast(r)
        \/ GaleWalk(r) \/ GaleServe(r)

SpecConc == InitConc /\ [][NextConc]_vars

(***************************************************************************)
(* Properties of the gale timeline.                                        *)
(***************************************************************************)
Returned == pc \in {"extracted", "done"}

\* The number entry i carries forward: the detected number of the nearest
\* entry before it with a positive one, 1 when there is none.
CarriedTo(ws, i) ==
    LET J == {j \in 1..(i - 1) : ws[j].detected > 0} IN
    IF J = {} THEN 1
    ELSE ws[CHOOSE j \in J : \A k \in J : k <= j].detected

\* C1: after the gap-filling pass an entry whose detected number was 0
\* carries the detected number of the nearest entry before it, in the
\* chronological sequence, whose detected number was positive, or 1 when no
\* such entry precedes it; an entry with a positive detected number keeps it.
C1_GapFilled ==
    Returned =>
        \A i \in 1..Len(warnings) :
            IF warnings[i].detected > 0
            THEN warnings[i].Number = warnings[i].detected
            ELSE warnings[i].Number = CarriedTo(warnings, i)

\* Detections 0, 36, 0 in date order came out as 1, 36, 36.
C1_Witness ==
    /\ pc = "extracted" /\ walkErr = Nil /\ Len(warnings) = 3
    /\ <<warnings[1].detected, warnings[2].detected, warnings[3].detected>>
           = <<0, 36, 0>>
    /\ <<warnings[1].Number, warnings[2].Number, warnings[3].Number>>
           = <<1, 36, 36>>
    /\ Before(warnings[1].Date, warnings[2].Date)
    /\ Before(warnings[2].Date, warnings[3].Date)

\* C2: whatever the order of the walk, the returned sequence is ascending
\* by timestamp, and a gap is filled from the entry that precedes it in that
\* sequence (from 1 at its head), not from the one the walk visited before.
C2_SortedThenFilled ==
    Returned =>
        /\ \A i \in 1..(Len(warnings) - 1) :
               ~Before(warnings[i + 1].Date, warnings[i].Date)
        /\ \A i \in 1..Len(warnings) :
               warnings[i].detected = 0 =>
                   warnings[i].Number =
                       (IF i = 1 THEN 1 ELSE warnings[i - 1].Number)

\* The walk visited a later file without a number before an earlier file
\* with one, and the later entry took the number of the earlier.
C2_Witness ==
    /\ pc = "extracted" /\ Len(warnings) >= 2
    /\ \E i \in 1..(Len(warnings) - 1) :
        /\ warnings[i].ord > warnings[i + 1].ord
        /\ Before(warnings[i].Date, warnings[i + 1].Date)
        /\ warnings[i].detected > 0
        /\ warnings[i + 1].detected = 0
        /\ warnings[i + 1].Number = warnings[i].detected

\* A regular file with a matching name that cannot be opened, whose stamp
\* does not parse or whose first announced number is no 32-bit integer.
Fails(f) ==
    /\ f.stat = "ok" /\ f.regular /\ f.name.match
    /\ \/ f.name.day < 1
       \/ ~f.openable
       \/ \E i \in 1..Len(f.lines) :
            /\ f.lines[i].announce /\ ~f.lines[i].fits
            /\ \A j \in 1..(i - 1) : ~f.lines[j].announce

NoChart ==
    /\ response.status = 500 /\ response.error = walkErr
    /\ response.data = <<>> /\ response.refs = <<>>

\* C3 as stated: a failing file makes extractWarningNumbers report an error,
\* and with the error no entry collected before the failure is returned or
\* rendered.
C3_NoPartialReturned ==
    /\ Fails(last) => walkErr # Nil
    /\ (Returned /\ Fails(last)) => warnings = <<>>
    /\ (pc = "done" /\ Fails(last)) => NoChart

\* C3, amended: a failing file makes extractWarningNumbers report an error;
\* the entries collected before the failure are returned beside the error,
\* and serveGaleWarnings drops them: the response is the error, without a
\* chart.
C3_NoPartialRendered ==
    /\ Fails(last) => walkErr # Nil
    /\ (pc = "done" /\ walkErr # Nil) => NoChart

\* An extraction that failed after an entry was collected ended as an error
\* response.
C3_Witness ==
    /\ pc = "done" /\ Fails(last) /\ walkErr # Nil
    /\ Len(warnings) >= 1 /\ response.status = 500

\* C4: in a rendered series, when the earliest entry is after January 1st
\* of the current year the first point is January 1st (yearday 1) with
\* number 0, followed by the entries; the last point is dated now and has
\* the number of the last entry.
C4_BoundaryPoints ==
    (pc = "done" /\ walkErr = Nil /\ Len(warnings) >= 1) =>
        LET data == response.data
            n == Len(warnings)
        IN  /\ response.status = 200
            /\ Before(Jan1(now), warnings[1].Date) =>
                   /\ Len(data) = n + 2
                   /\ data[1].Date = Format(Jan1(now))
                   /\ data[1].X = deltaDays(Jan1(now))
                   /\ data[1].YearDay = 1
                   /\ data[1].Y = 0
                   /\ \A i \in 1..n :
                          /\ data[i + 1].Date = Format(warnings[i].Date)
                          /\ data[i + 1].Y = warnings[i].Number
            /\ Len(data) >= 2
            /\ data[Len(data)].Date = Format(now)
            /\ data[Len(data)].X = deltaDays(now)
            /\ data[Len(data)].Y = warnings[n].Number

\* A timeline that starts after January 1st and ends with number 36 was
\* rendered.
C4_Witness ==
    /\ pc = "done" /\ walkErr = Nil /\ Len(warnings) = 2
    /\ Before(Jan1(now), warnings[1].Date)
    /\ warnings[2].Number = 36
    /\ response.data[1].Y = 0
    /\ response.data[4].Y = 36

NoLineAnnounces(f) == \A i \in 1..Len(f.lines) : ~f.lines[i].announce

\* C5: while the walk meets no error the timeline holds one entry for each
\* regular file with a matching name, and it still does once returned; a
\* matching file that opens and in which no line announces a number gives an
\* entry with number 0 and no error; a regular file whose name does not
\* match gives no entry and no error.
C5_OneEntryPerFile ==
    /\ walkErr = Nil =>
           /\ Len(warnings) = matched
           /\ \A k \in 1..matched :
                  Cardinality({i \in 1..Len(warnings) : warnings[i].ord = k}) = 1
    /\ (pc = "walk" /\ last.stat = "ok" /\ last.regular /\ ~last.name.match) =>
           walkErr = Nil
    /\ (pc = "walk" /\ last.stat = "ok" /\ last.regular /\ last.name.match
            /\ last.name.day >= 1 /\ last.openable /\ NoLineAnnounces(last)) =>
           /\ walkErr = Nil
           /\ Len(warnings) >= 1
           /\ LET w == warnings[Len(warnings)] IN
                  /\ w.Number = 0 /\ w.detected = 0 /\ w.ord = matched
                  /\ w.Date = Time(last.name.year, last.name.day,
                                   last.name.hour, 0)

(***************************************************************************)
(* Properties of the text normalizer.                                      *)
(***************************************************************************)
NoEdgeSpace(s) == s = <<>> \/ (~IsSpace(s[1]) /\ ~IsSpace(s[Len(s)]))

NoDoubleNewline(s) == \A i \in 1..(Len(s) - 1) : ~(s[i] = NL /\ s[i + 1] = NL)

IsBreakAt(s, i) == i >= 1 /\ i + 5 <= Len(s) /\ SubSeq(s, i, i + 5) = BR

\* The maximal runs of "<br />" tokens of s: <<first character, tokens>>.
BreakRuns(s) ==
    {r \in (1..Len(s)) \X (1..Len(s)) :
        /\ \A j \in 0..(r[2] - 1) : IsBreakAt(s, r[1] + 6 * j)
        /\ ~IsBreakAt(s, r[1] - 6)
        /\ ~IsBreakAt(s, r[1] + 6 * r[2])}

\* The characters of s other than line breaks, tokens or newlines.
Visible(s) == SelectSeq(ReplaceAll(s, BR, <<NL>>), LAMBDA c : c # NL)

HasInk(s) == \E i \in 1..Len(s) : ~IsSpace(s[i]) /\ ~IsBreakAt(s, i)
                                   /\ \A j \in 1..5 : ~IsBreakAt(s, i - j)

\* The output t has exactly one newline where the run r of the input s is:
\* a newline with no newline next to it, with the text before the run on its
\* left and the text after the run on its right.
OneNewlineAt(s, t, r) ==
    \E k \in 1..Len(t) :
        /\ t[k] = NL
        /\ k > 1 => t[k - 1] # NL
        /\ k < Len(t) => t[k + 1] # NL
        /\ Visible(SubSeq(t, 1, k - 1))
               = TrimLeft(Visible(SubSeq(s, 1, r[1] - 1)))
        /\ Visible(SubSeq(t, k + 1, Len(t)))
               = TrimRight(Visible(Drop(s, r[1] + 6 * r[2] - 1)))

\* C6 as stated: the result has no leading or trailing whitespace and no two
\* consecutive newlines, and every run of "<br />" tokens of the input gives
\* exactly one newline at its position.
C6_EveryRunOneNewline ==
    tpc = "ret" =>
        /\ NoEdgeSpace(text)
        /\ NoDoubleNewline(text)
        /\ \A r \in BreakRuns(html) : OneNewlineAt(html, text, r)

\* C6, amended: the result has no leading or trailing whitespace and no two
\* consecutive newlines; a run of "<br />" tokens with a non-whitespace
\* character somewhere before it and somewhere after it gives exactly one
\* newline at its position, and any other run is trimmed away with the
\* whitespace around it and gives none.
C6_InnerRunOneNewline ==
    tpc = "ret" =>
        /\ NoEdgeSpace(text)
        /\ NoDoubleNewline(text)
        /\ \A r \in BreakRuns(html) :
               OneNewlineAt(html, text, r)
                   <=> /\ HasInk(SubSeq(html, 1, r[1] - 1))
                       /\ HasInk(Drop(html, r[1] + 6 * r[2] - 1))

\* Two consecutive tokens between two letters gave one newline.
C6_Witness ==
    /\ tpc = "ret"
    /\ html = <<"a">> \o BR \o BR \o <<"a">>
    /\ text = <<"a", NL, "a">>

(***************************************************************************)
(* Properties of the decoders.                                             *)
(***************************************************************************)
Decoded == rpc = "ret" /\ forecast.err = NoErr

\* The horizons of the report the decoder renders, and its region if any.
Rendered == IF variant = "B" THEN reports[2] ELSE reports[1]

RegionsOf(e) == IF variant = "B" THEN e.Regions ELSE e.Areas

HasRegion ==
    /\ Decoded
    /\ Len(Rendered.Echeances) = 1
    /\ Len(RegionsOf(Rendered.Echeances[1])) = 1

TheRegion == RegionsOf(Rendered.Echeances[1])[1]

Has(c, s) == \E i \in 1..Len(s) : s[i] = c

Pos(c, s) == CHOOSE i \in 1..Len(s) : s[i] = c

InOrder(s, tags) ==
    \A i, j \in 1..Len(tags) :
        (i < j /\ Has(tags[i], s) /\ Has(tags[j], s)) =>
            Pos(tags[i], s) < Pos(tags[j], s)

\* Every text of the region is in the content.
AllThere(s, a) ==
    \A f \in DOMAIN a : \A i \in 1..Len(a[f]) :
        a[f][i] \in {"S", "O", "W", "G", "K", "H", "T", "I", "V"} => Has(a[f][i], s)

OtherTexts == {"1", "3", "4", "x", "y", "z", "f", "g", "h", "j", "k", "q"}

\* C7: variant B succeeds exactly when the response holds two reports; with
\* another count it fails with an error naming the count and gives no
\* forecast; with two it succeeds, also without any horizon, and title and
\* content come from the second report alone.
C7_TwoReports ==
    (rpc = "ret" /\ variant = "B") =>
        /\ forecast.err = NoErr <=> Len(reports) = 2
        /\ Len(reports) # 2 =>
               /\ forecast.err = [msg |-> "2 reports expected, go %d",
                                  n |-> Len(reports)]
               /\ forecast.Title = <<>> /\ forecast.Content = <<>>
        /\ Len(reports) = 2 =>
               /\ forecast.Title = reports[2].Title
               /\ HasPrefix(forecast.Content, reports[2].Title \o <<NL, NL, "P", NL, "P", NL>>)
               /\ \A i \in 1..Len(forecast.Content) :
                      forecast.Content[i] \notin OtherTexts
               /\ \A k \in 1..Len(reports[2].Echeances) :
                      \A j \in 1..Len(reports[2].Echeances[k].Regions) :
                          AllThere(forecast.Content,
                                   reports[2].Echeances[k].Regions[j])

\* Two reports, the second without any horizon and the first with one, were
\* decoded.
C7_Witness ==
    /\ rpc = "ret" /\ variant = "B" /\ Len(reports) = 2
    /\ reports[2].Echeances = <<>> /\ reports[1].Echeances # <<>>
    /\ forecast.err = NoErr
    /\ forecast.Content = <<"2", NL, NL, "P", NL, "P", NL, NL, NL, "Q", NL, NL>>

\* C8: in every variant the texts of a region come in the order
\* situation, observation, wind and sea, swell, visibility,
\* confidence/weather.
C8_VisibilityThenWeather ==
    HasRegion =>
        /\ AllThere(forecast.Content, TheRegion)
        /\ InOrder(forecast.Content, <<"S", "O", "W", "G", "H", "V", "T">>)
        /\ InOrder(forecast.Content, <<"S", "O", "W", "G", "H", "V", "I">>)

ContentLines == Split(forecast.Content, <<NL>>)

HasLine(l) == \E i \in 1..Len(ContentLines) : ContentLines[i] = l

HasLines(l1, l2) ==
    \E i \in 1..(Len(ContentLines) - 1) :
        ContentLines[i] = l1 /\ ContentLines[i + 1] = l2

\* C9: in every variant a wind and sea field with the marker
\* after some text gives two paragraphs, the text before the first marker
\* and the text from it on; a field without the marker gives one paragraph.
C9_SplitAtMarker ==
    HasRegion =>
        LET f == TheRegion.WindAndSea
            parts == Split(f, MER)
        IN  /\ (Len(parts) >= 2 /\ parts[1] # <<>>) =>
                   /\ HasLines(parts[1], Drop(f, Len(parts[1])))
                   /\ ~HasLine(f)
            /\ (Len(parts) = 1 /\ HasInk(f)) => HasLine(f)

\* The response with every field that normalizes to nothing emptied.
Blanked(a) ==
    [f \in DOMAIN a |-> IF htmlToText(a[f]) = <<>> THEN <<>> ELSE a[f]]

BlankedEcheance(e) ==
    IF variant = "B"
    THEN [e EXCEPT !.Regions = [k \in 1..Len(e.Regions) |-> Blanked(e.Regions[k])]]
    ELSE [e EXCEPT !.Areas = [k \in 1..Len(e.Areas) |-> Blanked(e.Areas[k])]]

BlankedReports ==
    [i \in 1..Len(reports) |->
        [reports[i] EXCEPT !.Echeances =
            [j \in 1..Len(reports[i].Echeances) |->
                BlankedEcheance(reports[i].Echeances[j])]]]

Decode(rs) ==
    IF variant = "B" THEN formatReport(rs)
    ELSE IF variant = "A" THEN fetchWeather(rs)
    ELSE fetchWeatherMetmar(rs)

\* C10: a field that is empty or normalizes to nothing leaves no trace in
\* the content: the content is the one decoded with the field absent.
C10_BlankFieldsOmitted ==
    Decoded => forecast.Content = Decode(BlankedReports).Content

(***************************************************************************)
(* Properties of the forecast servers.                                     *)
(***************************************************************************)
Answered(r) == spc[r] = "done"

\* The request of r reached serveAreas or serveForecast, which answered it.
Handled(r) == Answered(r) /\ Handler(r) \in Handlers

\* The fetch and the decoding of its answers succeeded for handler r.
FetchedAll(r) == ferr[r] = NoError

\* The bodies handler r can generate from its batch: the index, or the
\* content of a forecast carrying the id of the request.
Generated(r) ==
    IF Handler(r) = "serveAreas" THEN {formatAreas(forecasts[r])}
    ELSE {forecasts[r][k].Content :
             k \in {j \in 1..Len(forecasts[r]) :
                       forecasts[r][j].Id = Base(req[r].path)}}

OneLine(b) ==
    /\ Len(b) >= 1 /\ b[Len(b)] = NL
    /\ \A i \in 1..(Len(b) - 1) : b[i] # NL

\* The answer carries the fingerprint of a generated body as its ETag, and
\* is an empty 304 exactly when If-None-Match equals it, the body otherwise.
Validated(r) ==
    /\ resp[r].etag # NoHeader
    /\ \E b \in Generated(r) :
        /\ resp[r].etag = hashReport(b)
        /\ IF req[r].ifNoneMatch = hashReport(b)
           THEN resp[r].status = 304 /\ resp[r].body = <<>>
           ELSE resp[r].status = 200 /\ resp[r].body = b

\* The answer is a 500 in plain text holding the message, without an ETag.
Refused(r, msg) ==
    /\ resp[r].status = 500
    /\ resp[r].contentType = "text/plain;charset=utf-8"
    /\ resp[r].etag = NoHeader
    /\ resp[r].body = <<"error: ">> \o msg \o <<NL>>

\* C11 as stated: an answered request whose fetch and decode succeeded
\* carries the fingerprint of the generated body as ETag and is an empty 304
\* exactly when If-None-Match equals it, the full body otherwise; one whose
\* fetch or decode failed is a 500 with a one-line plain text message and no
\* ETag.
C11_ValidatorOrFetchError ==
    \A r \in Reqs : Handled(r) =>
        IF FetchedAll(r) THEN Validated(r)
        ELSE Refused(r, ferr[r]) /\ OneLine(resp[r].body)

\* C11, amended: an answered request whose fetch and decode succeeded and,
\* for a report, whose id is in the batch carries the fingerprint of the
\* generated body as ETag and is an empty 304 exactly when If-None-Match
\* equals it, the full body otherwise; one whose fetch or decode failed is a
\* 500 with a one-line plain text message and no ETag; and a report request
\* whose id no forecast of the batch carries is a 500 too, without an ETag,
\* its message "cannot find forecast: " and the requested id as it came.
C11_ValidatorOrError ==
    \A r \in Reqs : Handled(r) =>
        IF ~FetchedAll(r) THEN Refused(r, ferr[r]) /\ OneLine(resp[r].body)
        ELSE IF Generated(r) # {} THEN Validated(r)
        ELSE Refused(r, <<"cannot find forecast: ">> \o Base(req[r].path))

\* serve.go answered a report request presenting the ETag of the report
\* with an empty 304.
C11_Witness ==
    /\ server = "B" /\ Answered(1) /\ FetchedAll(1)
    /\ Handler(1) = "serveForecast"
    /\ req[1].ifNoneMatch # NoHeader
    /\ resp[1].status = 304 /\ resp[1].etag = req[1].ifNoneMatch
    /\ resp[1].body = <<>>

\* The forecasts of handler r's batch carrying the id of its request.
Carrying(r) ==
    {k \in 1..Len(forecasts[r]) : forecasts[r][k].Id = Base(req[r].path)}

\* C12: a report request answered after a successful fetch is, when no
\* forecast of the batch carries its id, the error "cannot find forecast"
\* and no success, with neither a body nor an ETag of any content; when one
\* does, it is a success whose content is the content of the first forecast
\* carrying the id: the body, or for a 304 the content the ETag is the
\* fingerprint of.
C12_AbsentIdIsError ==
    \A r \in Reqs :
        (Answered(r) /\ FetchedAll(r) /\ Handler(r) = "serveForecast") =>
            IF Carrying(r) = {}
            THEN Refused(r, <<"cannot find forecast: ">> \o Base(req[r].path))
            ELSE LET k == CHOOSE j \in Carrying(r) : \A m \in Carrying(r) : j <= m
                     content == forecasts[r][k].Content
                 IN  /\ resp[r].status \in {200, 304}
                     /\ resp[r].etag = hashReport(content)
                     /\ resp[r].status = 200 => resp[r].body = content
                     /\ resp[r].status = 304 => resp[r].body = <<>>

\* serve.go fetched its nine forecasts and answered a request for the id
\* "x" with the error.
C12_Witness ==
    /\ server = "B" /\ Answered(1) /\ FetchedAll(1)
    /\ Handler(1) = "serveForecast"
    /\ Len(forecasts[1]) = NAreas
    /\ Base(req[1].path) = <<"x">>
    /\ resp[1].status = 500
    /\ resp[1].body = <<"error: ", "cannot find forecast: ", "x", NL>>

(***************************************************************************)
(* Properties of handlers in flight together.                              *)
(***************************************************************************)
\* The answers handler r gives when it is the only one the server runs.
Alone(r) ==
    IF server = "gale" THEN galeResponses(upstream)
    ELSE LET b == IF server = "B" THEN fetchForecasts(upstream)
                  ELSE fetchForecastsPage(upstream)
         IN  IF Handler(r) = "serveAreas"
             THEN {serveAreas(b.forecasts, b.err, req[r])}
             ELSE IF Handler(r) = "serveForecast"
             THEN {serveForecast(b.forecasts, b.err, req[r])}
             ELSE {muxAnswer(Route(prefix, req[r].path))}

\* What handler r asked for itself: every area, every file or the page, in
\* order, up to the first failure.
OwnFetch(r) ==
    IF server # "gale" /\ Handler(r) \notin Handlers THEN fetched[r] = <<>>
    ELSE
    /\ fetched[r] # <<>> \/ (server = "gale" /\ upstream = <<>>)
    /\ IF server = "C" THEN fetched[r] = <<0>>
       ELSE /\ \A i \in 1..Len(fetched[r]) : fetched[r][i] = i
            /\ ferr[r] = (IF server = "B" THEN NoError ELSE Nil) =>
                   Len(fetched[r]) = (IF server = "B" THEN NAreas
                                      ELSE Len(upstream))

\* C13: whatever the order in which two handlers take their steps, the
\* answer of each is an answer it gives when it runs alone against the same
\* upstream answers or directory, and each has fetched or scanned for
\* itself, from the start.
C13_AnswersAsAlone ==
    \A r \in Reqs : Answered(r) => (resp[r] \in Alone(r) /\ OwnFetch(r))

\* serve.go answered the second request with its report while the first
\* handler was in the middle of its nine fetches.
C13_Witness ==
    /\ server = "B" /\ Answered(2) /\ resp[2].status = 200
    /\ Handler(2) = "serveForecast"
    /\ spc[1] = "fetch" /\ loopi[1] \in 2..NAreas
    /\ Len(forecasts[1]) = loopi[1] - 1

(***************************************************************************)
(* Properties of the order and of the span of the gale timeline.           *)
(***************************************************************************)
\* C14: two returned entries with equal timestamps are in the
\* order in which the walk visited their files.
C14_Stable ==
    Returned =>
        \A i, j \in 1..Len(warnings) :
            (i < j /\ warnings[i].Date = warnings[j].Date) =>
                warnings[i].ord < warnings[j].ord

\* C15: the rendered series is not empty and its points never go back in
\* time, from the first to the last: January 1st is not after the first
\* entry and now is not before the last one.
C15_SeriesNonDecreasing ==
    (pc = "done" /\ walkErr = Nil) =>
        /\ response.status = 200
        /\ Len(response.data) >= 1
        /\ \A i \in 1..(Len(response.data) - 1) :
               response.data[i].X.num <= response.data[i + 1].X.num

(***************************************************************************)
(* Properties of the batch of serve.go.                                    *)
(***************************************************************************)
\* Upstream does not answer area i with two decodable reports.
AreaFails(i) ==
    \/ upstream[i].status # 200
    \/ upstream[i].body # "json"
    \/ Len(upstream[i].reports) # 2

NineIds ==
    << <<"1">>, <<"2">>, <<"3">>, <<"4">>, <<"5">>, <<"6">>, <<"7">>,
       <<"8">>, <<"9">> >>

\* C16: fetchForecasts of serve.go, which every request given to a handler
\* calls, asks for the areas in order, each once;
\* it returns an error and no forecast as soon as one area fails, having
\* asked for no later area, and otherwise nine forecasts with the ids "1" to
\* "9" in ascending order.
C16_AllOrNothing ==
    \A r \in Reqs : server = "B" =>
        /\ \A i \in 1..Len(fetched[r]) : fetched[r][i] = i
        /\ \A i \in 1..(Len(fetched[r]) - 1) : ~AreaFails(i)
        /\ (spc[r] \in {"fetched", "done"} /\ Handler(r) \in Handlers) =>
               IF ferr[r] # NoError
               THEN /\ forecasts[r] = <<>>
                    /\ fetched[r] # <<>>
                    /\ AreaFails(Len(fetched[r]))
               ELSE /\ Len(fetched[r]) = NAreas
                    /\ \A i \in Areas : ~AreaFails(i)
                    /\ [i \in 1..Len(forecasts[r]) |-> forecasts[r][i].Id]
                           = NineIds

\* The fifth area answered a 404 after four forecasts were collected: the
\* fetch returned the error alone.
C16_Witness ==
    /\ server = "B" /\ spc[1] = "fetched"
    /\ upstream[5].status = 404
    /\ fetched[1] = <<1, 2, 3, 4, 5>>
    /\ forecasts[1] = <<>> /\ ferr[1] # NoError

====
